---- MODULE Spec2Model ----
(***************************************************************************)
(* Model of the sorted-list crate (src/src/lib.rs): SortedList<K, V>, a    *)
(* multimap kept in two parallel vectors `keys` and `values`, with its     *)
(* operations insert, extend, values_of and range.                         *)
(*                                                                         *)
(* Vectors are TLA+ sequences; the code's 0-based index i is element i+1.  *)
(* All positions named as in the code (found_at, insert_at, pos, index,    *)
(* skip, take) are the code's 0-based numbers.                             *)
(***************************************************************************)
EXTENDS Integers, Sequences, FiniteSets, TLC

(* ---- bounds of the model ---- *)
MaxKey == 2
MaxValue == 1
MaxLen == 4
MaxBatch == 2
MaxRangeLen == 3

Keys == 0..MaxKey
Values == 0..MaxValue
Pairs == Keys \X Values

(* The two algorithms the standard library has shipped for                 *)
(* slice::binary_search: "probe" returns the first probed element that     *)
(* compares equal; "branchless" returns the last element that compares     *)
(* equal. Which one a build uses depends on the toolchain; it is fixed     *)
(* for a whole run.                                                        *)
Impls == {"probe", "branchless"}

VARIABLES keys, values, bsearch, log, call
vars == <<keys, values, bsearch, log, call>>

(* ---- Option / Result values ---- *)
Ok(pos) == [ok |-> TRUE, pos |-> pos]
Err(pos) == [ok |-> FALSE, pos |-> pos]
Some(n) == [tag |-> "Some", val |-> n]
None == [tag |-> "None", val |-> 0]
Panic == [tag |-> "Panic", val |-> 0]

(* ---- slice::binary_search as called at lib.rs:58, 160, 166, 180, 188 ---- *)
RECURSIVE BsProbe(_, _, _, _)
BsProbe(s, key, left, right) ==
    IF left >= right THEN Err(left)
    ELSE LET mid == left + ((right - left) \div 2) IN
         IF s[mid + 1] < key THEN BsProbe(s, key, mid + 1, right)
         ELSE IF s[mid + 1] > key THEN BsProbe(s, key, left, mid)
         ELSE Ok(mid)

RECURSIVE BsBase(_, _, _, _)
BsBase(s, key, base, size) ==
    IF size > 1
    THEN LET half == size \div 2
             mid == base + half
         IN BsBase(s, key, IF s[mid + 1] > key THEN base ELSE mid, size - half)
    ELSE base

BsBranchless(s, key) ==
    IF Len(s) = 0 THEN Err(0)
    ELSE LET base == BsBase(s, key, 0, Len(s)) IN
         IF s[base + 1] = key THEN Ok(base)
         ELSE Err(base + (IF s[base + 1] < key THEN 1 ELSE 0))

binary_search(s, key, impl) ==
    IF impl = "probe" THEN BsProbe(s, key, 0, Len(s)) ELSE BsBranchless(s, key)

(* ---- Vec::insert(at, x): panics when at > len ---- *)
VecInsert(s, at, x) ==
    SubSeq(s, 1, at) \o <<x>> \o SubSeq(s, at + 1, Len(s))

(* ---- SortedList::find_insertion_positition, lib.rs:86-113 ---- *)
(* `it` is how far the two skip(from) iterators have advanced, `index` the *)
(* loop's counter before its increment.                                    *)
RECURSIVE ScanFrom(_, _, _, _, _, _)
ScanFrom(ks, vs, it, index, key, value) ==
    LET index1 == index + 1
        hasKey == it < Len(ks)
        hasValue == it < Len(vs)
    IN IF hasKey /\ hasValue
       THEN IF key = ks[it + 1]
            THEN IF value = vs[it + 1]
                 THEN [kind |-> "None", index |-> 0]
                 ELSE ScanFrom(ks, vs, it + 1, index1, key, value)
            ELSE [kind |-> "Before", index |-> index1]
       ELSE IF ~hasKey /\ ~hasValue
            THEN [kind |-> "Last", index |-> 0]
            ELSE [kind |-> "Unreachable", index |-> 0]

(* Variant: the scan starts one past the position binary search found. *)
find_insertion_positition_past_found(ks, vs, from, key, value) ==
    ScanFrom(ks, vs, from + 1, from + 1, key, value)

find_insertion_positition(ks, vs, from, key, value) ==
    ScanFrom(ks, vs, from, from, key, value)

(* ---- InsertionPosition::insert, lib.rs:252-269 ---- *)
(* Result of a mutation: the two vectors, the returned boolean, and        *)
(* whether the call panicked instead of returning.                         *)
Outcome(ks, vs, ret, panicked) ==
    [keys |-> ks, values |-> vs, ret |-> ret, panicked |-> panicked]

(* Variant: Before(index) inserts at index instead of index - 1. *)
InsertionPositionInsertAtIndex(position, key, value, ks, vs) ==
    IF position.kind = "Before"
    THEN Outcome(VecInsert(ks, position.index, key),
                 VecInsert(vs, position.index, value), TRUE, FALSE)
    ELSE Outcome(Append(ks, key), Append(vs, value), TRUE, FALSE)

(* Variant: Before(index) overwrites the entry at index - 1. *)
InsertionPositionInsertOverwrite(position, key, value, ks, vs) ==
    IF position.kind = "Before"
    THEN Outcome([ks EXCEPT ![position.index] = key],
                 [vs EXCEPT ![position.index] = value], TRUE, FALSE)
    ELSE Outcome(Append(ks, key), Append(vs, value), TRUE, FALSE)

InsertionPositionInsert(position, key, value, ks, vs) ==
    IF position.kind = "Before"
    THEN IF position.index < 1 \/ position.index - 1 > Len(ks)
              \/ position.index - 1 > Len(vs)
         THEN Outcome(ks, vs, FALSE, TRUE)
         ELSE LET ks1 == VecInsert(ks, position.index - 1, key)
                  vs1 == VecInsert(vs, position.index - 1, value)
              IN Outcome(ks1, vs1, TRUE, Len(ks1) # Len(vs1))
    ELSE LET ks1 == Append(ks, key)
             vs1 == Append(vs, value)
         IN Outcome(ks1, vs1, TRUE, Len(ks1) # Len(vs1))

(* ---- SortedList::insert, lib.rs:57-76 ---- *)
InsertFound(ks, vs, found_at, key, value) ==
    LET insertion_position == find_insertion_positition(ks, vs, found_at, key, value) IN
    IF insertion_position.kind = "Unreachable" THEN Outcome(ks, vs, FALSE, TRUE)
    ELSE IF insertion_position.kind = "None" THEN Outcome(ks, vs, FALSE, FALSE)
    ELSE InsertionPositionInsert(insertion_position, key, value, ks, vs)

(* Variant: a key that binary search did not find is pushed at the end. *)
InsertNotFoundPush(ks, vs, insert_at, key, value) ==
    Outcome(Append(ks, key), Append(vs, value), TRUE, FALSE)

(* Variant: only the key is inserted, the value vector is left alone. *)
InsertNotFoundKeyOnly(ks, vs, insert_at, key, value) ==
    Outcome(VecInsert(ks, insert_at, key), vs, TRUE, FALSE)

InsertNotFound(ks, vs, insert_at, key, value) ==
    IF insert_at > Len(ks) \/ insert_at > Len(vs)
    THEN Outcome(ks, vs, FALSE, TRUE)
    ELSE Outcome(VecInsert(ks, insert_at, key), VecInsert(vs, insert_at, value),
                 TRUE, FALSE)

insert(ks, vs, key, value, impl) ==
    LET r == binary_search(ks, key, impl) IN
    IF r.ok THEN InsertFound(ks, vs, r.pos, key, value)
    ELSE InsertNotFound(ks, vs, r.pos, key, value)

(* ---- Extend::extend, lib.rs:229-238 ---- *)
(* temp.sort_by_key(..): a stable sort of the batch by key.                *)
RECURSIVE PlaceBeforeGreaterOrEqual(_, _)
PlaceBeforeGreaterOrEqual(x, sorted) ==
    IF sorted = <<>> THEN <<x>>
    ELSE IF Head(sorted)[1] >= x[1] THEN <<x>> \o sorted
    ELSE <<Head(sorted)>> \o PlaceBeforeGreaterOrEqual(x, Tail(sorted))

RECURSIVE sort_by_key(_)
sort_by_key(temp) ==
    IF Len(temp) <= 1 THEN temp
    ELSE PlaceBeforeGreaterOrEqual(Head(temp), sort_by_key(Tail(temp)))

(* for (k, v) in temp { self.insert(k, v); } with the pairs whose insert   *)
(* returned true collected in `added`.                                     *)
RECURSIVE InsertEach(_, _, _, _, _)
InsertEach(ks, vs, temp, impl, added) ==
    IF temp = <<>>
    THEN [keys |-> ks, values |-> vs, added |-> added, panicked |-> FALSE]
    ELSE LET r == insert(ks, vs, Head(temp)[1], Head(temp)[2], impl) IN
         IF r.panicked
         THEN [keys |-> r.keys, values |-> r.values, added |-> added, panicked |-> TRUE]
         ELSE InsertEach(r.keys, r.values, Tail(temp), impl,
                         IF r.ret THEN Append(added, Head(temp)) ELSE added)

extend(ks, vs, iter, impl) ==
    InsertEach(ks, vs, sort_by_key(iter), impl, <<>>)

(* ---- Tuples, lib.rs:272-289: the pairs from `index` on ---- *)
Tuples(ks, vs, index) ==
    IF index >= Len(ks) THEN <<>>
    ELSE [i \in 1..(Len(ks) - index) |-> <<ks[index + i], vs[index + i]>>]

iter(ks, vs) == Tuples(ks, vs, 0)

(* Iterator::skip and Iterator::take of std *)
Skip(items, n) == SubSeq(items, n + 1, Len(items))
Take(items, n) == SubSeq(items, 1, IF n < Len(items) THEN n ELSE Len(items))

(* ---- SortedList::values_of, lib.rs:79-84 ---- *)
RECURSIVE PositionFrom(_, _, _)
PositionFrom(ks, key, i) ==
    IF i >= Len(ks) THEN None
    ELSE IF key = ks[i + 1] THEN Some(i)
    ELSE PositionFrom(ks, key, i + 1)

(* Variant: the iterator does not stop at the first differing key. *)
ValuesOfNextIgnoringKey(items, key) ==
    [i \in 1..Len(items) |-> items[i][2]]

(* ValuesOf::next, lib.rs:354-372, called until it first returns None *)
RECURSIVE ValuesOfNext(_, _)
ValuesOfNext(items, key) ==
    IF items = <<>> THEN <<>>
    ELSE IF key = Head(items)[1]
         THEN <<Head(items)[2]>> \o ValuesOfNext(Tail(items), key)
         ELSE <<>>

(* ValuesOf::new, lib.rs:342-352, and the collected iterator *)
values_of(ks, vs, key) ==
    LET first == PositionFrom(ks, key, 0) IN
    IF first.tag = "Some"
    THEN ValuesOfNext(Skip(iter(ks, vs), first.val), key)
    ELSE <<>>

(* ---- SortedList::range, lib.rs:138-206 ---- *)
(* vec[pos] with pos >= vec.len() is an index-out-of-bounds panic.         *)
RECURSIVE look_left_from(_, _, _, _)
look_left_from(key, vec, pos, offset) ==
    IF pos > 0
    THEN IF pos >= Len(vec) THEN Panic
         ELSE IF key = vec[pos + 1] THEN look_left_from(key, vec, pos - 1, offset)
         ELSE Some(pos + offset)
    ELSE None

RECURSIVE look_right_from(_, _, _)
look_right_from(key, vec, pos) ==
    IF pos < Len(vec) /\ key = vec[pos + 1] THEN look_right_from(key, vec, pos + 1)
    ELSE IF pos = Len(vec) THEN None
    ELSE Some(pos)

unwrap_or(opt, default) ==
    IF opt.tag = "None" THEN Some(default) ELSE opt

Included(k) == [kind |-> "Included", key |-> k]
Excluded(k) == [kind |-> "Excluded", key |-> k]
Unbounded == [kind |-> "Unbounded", key |-> 0]
Bounds == {Included(k) : k \in Keys} \cup {Excluded(k) : k \in Keys} \cup {Unbounded}

(* let start = match range.start() {..}, lib.rs:158-176 *)
RangeStart(ks, lower, impl) ==
    IF lower.kind = "Included"
    THEN LET r == binary_search(ks, lower.key, impl) IN
         IF r.ok THEN unwrap_or(look_left_from(lower.key, ks, r.pos, 1), 0)
         ELSE look_left_from(lower.key, ks, r.pos, 0)
    ELSE IF lower.kind = "Excluded"
    THEN look_right_from(lower.key, ks, binary_search(ks, lower.key, impl).pos)
    ELSE Some(0)

(* let end = match range.end() {..}, lib.rs:178-196 *)
RangeEnd(ks, upper, impl) ==
    IF upper.kind = "Included"
    THEN unwrap_or(look_right_from(upper.key, ks,
                                   binary_search(ks, upper.key, impl).pos), Len(ks))
    ELSE IF upper.kind = "Excluded"
    THEN LET r == binary_search(ks, upper.key, impl) IN
         IF r.ok THEN unwrap_or(look_left_from(upper.key, ks, r.pos, 1), Len(ks))
         ELSE unwrap_or(look_left_from(upper.key, ks, r.pos, 0), Len(ks))
    ELSE Some(Len(ks))

(* lib.rs:198-205: skip, take and the resulting iterator. `start` is       *)
(* evaluated before `end`, so a panic in either ends the call.             *)
range(ks, vs, lower, upper, impl) ==
    LET start == RangeStart(ks, lower, impl)
        end == RangeEnd(ks, upper, impl)
    IN IF start.tag = "Panic" \/ end.tag = "Panic"
       THEN [panicked |-> TRUE, skip |-> 0, end |-> 0, take |-> 0, out |-> <<>>]
       ELSE LET skip == unwrap_or(start, Len(ks)).val
                take == IF end.val <= skip THEN 0 ELSE end.val - skip
            IN [panicked |-> FALSE, skip |-> skip, end |-> end.val, take |-> take,
                out |-> Take(Tuples(ks, vs, skip), take)]

(* ---- the state machine ---- *)
(* keys, values: the two vectors of the SortedList (lib.rs:39-42).         *)
(* bsearch: the binary search algorithm of the build.                      *)
(* log: the pairs whose insert returned true, in call order.               *)
(* call: the most recent call on the list, its arguments, its result and   *)
(* the vectors as they were when it was made. `repeat` says that the call  *)
(* is an insert of the same pair as the insert made immediately before     *)
(* it; ret0, len0 and new0 then describe that earlier insert: what it      *)
(* returned, len() before it and whether the pair was then not stored.     *)
Stored(ks, vs, key, value) ==
    \E i \in 1..Len(ks) : i <= Len(vs) /\ ks[i] = key /\ vs[i] = value

NoCall ==
    [op |-> "new", key |-> 0, value |-> 0, lower |-> Unbounded, upper |-> Unbounded,
     batch |-> <<>>, ret |-> FALSE, out |-> <<>>, panicked |-> FALSE,
     skip |-> 0, end |-> 0, preKeys |-> <<>>, preValues |-> <<>>,
     repeat |-> FALSE, ret0 |-> FALSE, len0 |-> 0, new0 |-> FALSE]

(* SortedList::new, lib.rs:46-48 *)
Init ==
    /\ keys = <<>>
    /\ values = <<>>
    /\ bsearch \in Impls
    /\ log = <<>>
    /\ call = NoCall

Batches == UNION {[1..n -> Pairs] : n \in 0..MaxBatch}

Insert(key, value) ==
    LET r == insert(keys, values, key, value, bsearch)
        again == call.op = "insert" /\ call.key = key /\ call.value = value
    IN /\ ~call.panicked
       /\ Len(r.keys) <= MaxLen
       /\ keys' = r.keys
       /\ values' = r.values
       /\ log' = IF r.ret THEN Append(log, <<key, value>>) ELSE log
       /\ call' = [NoCall EXCEPT !.op = "insert", !.key = key, !.value = value,
                                 !.ret = r.ret, !.panicked = r.panicked,
                                 !.preKeys = keys, !.preValues = values,
                                 !.repeat = again,
                                 !.ret0 = again /\ call.ret,
                                 !.len0 = IF again THEN Len(call.preKeys) ELSE 0,
                                 !.new0 = again /\ ~Stored(call.preKeys, call.preValues,
                                                           key, value)]
       /\ UNCHANGED bsearch

Extend(batch) ==
    LET r == extend(keys, values, batch, bsearch) IN
    /\ ~call.panicked
    /\ Len(keys) + Len(batch) <= MaxLen
    /\ keys' = r.keys
    /\ values' = r.values
    /\ log' = log \o r.added
    /\ call' = [NoCall EXCEPT !.op = "extend", !.batch = batch,
                              !.panicked = r.panicked,
                              !.preKeys = keys, !.preValues = values]
    /\ UNCHANGED bsearch

ValuesOf(key) ==
    /\ ~call.panicked
    /\ call' = [NoCall EXCEPT !.op = "values_of", !.key = key,
                              !.out = values_of(keys, values, key),
                              !.preKeys = keys, !.preValues = values]
    /\ UNCHANGED <<keys, values, bsearch, log>>

Range(lower, upper) ==
    LET r == range(keys, values, lower, upper, bsearch) IN
    /\ ~call.panicked
    /\ Len(keys) <= MaxRangeLen
    /\ call' = [NoCall EXCEPT !.op = "range", !.lower = lower, !.upper = upper,
                              !.out = r.out, !.panicked = r.panicked,
                              !.skip = r.skip, !.end = r.end,
                              !.preKeys = keys, !.preValues = values]
    /\ UNCHANGED <<keys, values, bsearch, log>>

(* The list and its mutations: insert and extend. *)
Next ==
    \/ \E key \in Keys, value \in Values : Insert(key, value)
    \/ \E batch \in Batches : Extend(batch)

Spec == Init /\ [][Next]_vars

(* The list as built by insert, read through values_of. *)
NextValuesOf ==
    \/ \E key \in Keys, value \in Values : Insert(key, value)
    \/ \E key \in Keys : ValuesOf(key)

SpecValuesOf == Init /\ [][NextValuesOf]_vars

(* The list as built by insert, read through range. *)
NextRange ==
    \/ \E key \in Keys, value \in Values : Insert(key, value)
    \/ \E lower \in Bounds, upper \in Bounds : Range(lower, upper)

SpecRange == Init /\ [][NextRange]_vars

(* ---- definitions the properties are stated with ---- *)
KeyStored(ks, key) == \E i \in 1..Len(ks) : ks[i] = key

(* the values of the pairs of `items` whose key is `key`, in order *)
ValuesWithKey(items, key) ==
    LET hits == SelectSeq(items, LAMBDA pair : pair[1] = key)
    IN [i \in 1..Len(hits) |-> hits[i][2]]

(* 0-based index of the first key larger than `key`, or the length *)
FirstLarger(ks, key) ==
    IF \E i \in 1..Len(ks) : ks[i] > key
    THEN (CHOOSE i \in 1..Len(ks) : ks[i] > key /\ \A j \in 1..(i - 1) : ks[j] <= key) - 1
    ELSE Len(ks)

(* 0-based index where binary search would insert an absent key: the       *)
(* number of stored keys smaller than it.                                  *)
InsertionIndex(ks, key) == Cardinality({i \in 1..Len(ks) : ks[i] < key})

Satisfies(key, lower, upper) ==
    /\ lower.kind = "Included" => key >= lower.key
    /\ lower.kind = "Excluded" => key > lower.key
    /\ upper.kind = "Included" => key <= upper.key
    /\ upper.kind = "Excluded" => key < upper.key

(* ---- C1 ---- *)
(* C1: pair uniqueness. In every state reachable by insert and extend, no  *)
(* two different positions hold both equal keys and equal values.          *)
PairUniqueness ==
    \A i, j \in 1..Len(keys) :
        i # j => ~(keys[i] = keys[j] /\ values[i] = values[j])

(* ---- C2 ---- *)
(* C2: insert(k, v) returns true if and only if (k, v) was not stored      *)
(* before the call, and the pair is stored after the call.                 *)
InsertReturnsTrueIffNew ==
    (call.op = "insert" /\ ~call.panicked) =>
        /\ call.ret <=> ~Stored(call.preKeys, call.preValues, call.key, call.value)
        /\ Stored(keys, values, call.key, call.value)

(* ---- C3 ---- *)
(* C3: insertion order within a key. For each key the values stored under  *)
(* it appear in iter() in the order in which their inserts returned true;  *)
(* and a successful insert of a key that was already present puts the new  *)
(* pair at the end of that key's run: immediately before the first larger  *)
(* key, or at the end of the list.                                         *)
InsertionOrderWithinKey ==
    /\ \A k \in Keys : ValuesWithKey(iter(keys, values), k) = ValuesWithKey(log, k)
    /\ (call.op = "insert" /\ call.ret /\ KeyStored(call.preKeys, call.key)) =>
           LET at == FirstLarger(call.preKeys, call.key) IN
           /\ keys = VecInsert(call.preKeys, at, call.key)
           /\ values = VecInsert(call.preValues, at, call.value)

(* A third value has just been added to a key that has a larger key after  *)
(* it, and keys did not arrive in sorted order.                            *)
InsertionOrderWitness ==
    /\ call.op = "insert" /\ call.ret
    /\ KeyStored(call.preKeys, call.key)
    /\ FirstLarger(call.preKeys, call.key) < Len(call.preKeys)
    /\ Len(ValuesWithKey(iter(keys, values), call.key)) >= 2
    /\ \E i \in 1..(Len(log) - 1) : log[i][1] > log[i + 1][1]

(* ---- C4 ---- *)
(* C4: sortedness. In every state reachable by insert and extend the key   *)
(* sequence is non-decreasing.                                             *)
Sortedness ==
    \A i \in 1..(Len(keys) - 1) : keys[i] <= keys[i + 1]

(* An extend whose batch came in descending key order onto a list that     *)
(* already held a key between the two.                                     *)
SortednessWitness ==
    /\ call.op = "extend"
    /\ Len(call.batch) = 2
    /\ call.batch[1][1] > call.batch[2][1]
    /\ Len(call.preKeys) >= 1
    /\ \E i \in 1..Len(call.preKeys) :
           call.batch[2][1] < call.preKeys[i] /\ call.preKeys[i] < call.batch[1][1]
    /\ Len(keys) = Len(call.preKeys) + 2

(* ---- C5 ---- *)
(* C5: range(lower, upper) yields exactly the stored pairs whose key       *)
(* satisfies both bounds, in iter() order, for every combination of        *)
(* Included, Excluded and Unbounded bounds.                                *)
RangeExact ==
    call.op = "range" =>
        /\ ~call.panicked
        /\ call.out = SelectSeq(iter(keys, values),
                                LAMBDA pair : Satisfies(pair[1], call.lower, call.upper))

(* ---- C6 ---- *)
(* C6: a bound Included(k) or Excluded(k) on a key k that is not stored    *)
(* resolves to k's binary-search insertion index, as the lower and as the  *)
(* upper bound, and the call completes without a fatal error.              *)
AbsentKeyBoundsNeverFail ==
    call.op = "range" =>
        /\ (call.lower.kind # "Unbounded" /\ ~KeyStored(keys, call.lower.key)) =>
               ~call.panicked /\ call.skip = InsertionIndex(keys, call.lower.key)
        /\ (call.upper.kind # "Unbounded" /\ ~KeyStored(keys, call.upper.key)) =>
               ~call.panicked /\ call.end = InsertionIndex(keys, call.upper.key)

(* ---- C7 ---- *)
(* C7: range(Included(k), Included(k)) yields the same sequence as         *)
(* values_of(k) with each value paired with k; empty when k is absent.     *)
RangeOfKeyEqualsValuesOf ==
    (call.op = "range" /\ call.lower.kind = "Included" /\ call.upper.kind = "Included"
       /\ call.lower.key = call.upper.key) =>
        /\ ~call.panicked
        /\ LET vals == values_of(keys, values, call.lower.key)
           IN call.out = [i \in 1..Len(vals) |-> <<call.lower.key, vals[i]>>]

(* ---- C8 ---- *)
(* C8: values_of(k) yields exactly the values of the pairs of iter() whose *)
(* key equals k, in the same order; the empty sequence for an absent key.  *)
ValuesOfCorrect ==
    call.op = "values_of" =>
        call.out = ValuesWithKey(iter(keys, values), call.key)

(* values_of on a key holding two values, with a smaller key before its    *)
(* run and a larger key after it.                                          *)
ValuesOfWitness ==
    /\ call.op = "values_of"
    /\ Len(call.out) >= 2
    /\ \E i \in 1..Len(keys) : keys[i] < call.key
    /\ \E i \in 1..Len(keys) : keys[i] > call.key

(* ---- C9 ---- *)
(* C9: double insert. When insert(k, v) is called twice in a row with a    *)
(* pair that was not stored, the first call returns true, the second       *)
(* returns false, and len() after both is one more than before them.       *)
DoubleInsert ==
    (call.op = "insert" /\ call.repeat /\ call.new0) =>
        /\ call.ret0
        /\ ~call.ret
        /\ Len(keys) = call.len0 + 1

(* The second of two equal inserts has returned, on a key that already     *)
(* held another value before them.                                         *)
DoubleInsertWitness ==
    /\ call.op = "insert" /\ call.repeat /\ call.new0
    /\ Len(ValuesWithKey(iter(keys, values), call.key)) >= 2
    /\ Len(keys) = call.len0 + 1

(* ---- C10 ---- *)
(* C10: extend(batch) leaves the list holding the same pairs in the same   *)
(* order as calling insert on the pairs of the batch one at a time in      *)
(* their given order.                                                      *)
ExtendEqualsInsertEach ==
    (call.op = "extend" /\ ~call.panicked) =>
        LET one_by_one == InsertEach(call.preKeys, call.preValues, call.batch,
                                     bsearch, <<>>)
        IN keys = one_by_one.keys /\ values = one_by_one.values

(* ---- C11 ---- *)
(* C11: insert never reaches a fatal path. keys and values have the same   *)
(* length in every state; for every insert made, the lockstep scan did not *)
(* take its unreachable!() arm, a Before(index) position had index >= 1    *)
(* and index - 1 <= len, and the call ended by returning its boolean       *)
(* (no assertion failed, nothing panicked).                                *)
InsertNeverFatal ==
    /\ Len(keys) = Len(values)
    /\ call.op \in {"insert", "extend"} => ~call.panicked
    /\ call.op = "insert" =>
           LET found == binary_search(call.preKeys, call.key, bsearch)
               position == find_insertion_positition(call.preKeys, call.preValues,
                                                     found.pos, call.key, call.value)
           IN found.ok =>
                  /\ position.kind # "Unreachable"
                  /\ position.kind = "Before" =>
                         /\ position.index >= 1
                         /\ position.index - 1 <= Len(call.preKeys)

(* An insert that found its key, scanned past the end of the key's run and *)
(* inserted at a Before(index) position, and returned true.                *)
InsertNeverFatalWitness ==
    /\ call.op = "insert" /\ call.ret /\ ~call.panicked
    /\ LET found == binary_search(call.preKeys, call.key, bsearch)
       IN /\ found.ok
          /\ find_insertion_positition(call.preKeys, call.preValues, found.pos,
                                       call.key, call.value).kind = "Before"
    /\ Len(keys) = Len(call.preKeys) + 1

(* ---- C12 ---- *)
(* C12: frame of insert. An insert that returns false leaves keys and      *)
(* values unchanged. An insert that returns true makes len() one larger,   *)
(* and the list after it is the list before it with the new pair put in    *)
(* at one position: every old pair is still there, in the same relative    *)
(* order, none removed, overwritten or reordered.                          *)
InsertFrame ==
    (call.op = "insert" /\ ~call.panicked) =>
        /\ ~call.ret => keys = call.preKeys /\ values = call.preValues
        /\ call.ret =>
               /\ Len(keys) = Len(call.preKeys) + 1
               /\ \E at \in 0..Len(call.preKeys) :
                      /\ keys = VecInsert(call.preKeys, at, call.key)
                      /\ values = VecInsert(call.preValues, at, call.value)

(* A successful insert strictly inside a list of at least two pairs: old   *)
(* pairs lie on both sides of the new one.                                 *)
InsertFrameWitness ==
    /\ call.op = "insert" /\ call.ret
    /\ Len(call.preKeys) >= 2
    /\ \E at \in 1..(Len(call.preKeys) - 1) :
           /\ keys = VecInsert(call.preKeys, at, call.key)
           /\ values = VecInsert(call.preValues, at, call.value)
           /\ call.preKeys[at] # call.key

====
